---- MODULE Spec2Model ----
(***************************************************************************)
(* kv_parse.c: the stream engine (kv_parse.c) and the buffer engine        *)
(* (kv_parse_buffer.c) of the key-value scanner, driven by the caller's    *)
(* lookup loop of test.c.                                                  *)
(*                                                                         *)
(* Bytes are integers.  Offsets into the source are 0-based, as in C; the  *)
(* TLA+ sequence src holds byte number p of the source at src[p + 1].      *)
(***************************************************************************)
EXTENDS Integers, Sequences, FiniteSets, TLC

VARIABLES
    src,              \* the source text (file content / C string without its terminator)
    key,              \* the key the lookup loop searches for
    ws,               \* build flag: whitespace skip enabled (KV_PARSE_DISABLE_WHITESPACE_SKIP not defined)
    qs,               \* build flag: quoted strings enabled (KV_PARSE_DISABLE_QUOTED_STRINGS not defined)
    plainCharSigned,  \* ABI of the build: plain char is signed 8-bit
    engine,           \* "stream" (kv_parse) or "buffer" (kv_parse_buffer)
    file,             \* stream engine: the FILE, [pos, unget]
    input,            \* buffer engine: the caller's line pointer (offset, or NULL)
    input_value,      \* buffer engine: the pointer check_key returned
    value,            \* the caller's destination buffer, indices 0..DestSize-1
    line,             \* the caller's loop counter
    pc,               \* where the caller is: "next_line", "check_key", "get_value", "other_key", "got",
                      \* "scanned_on", "section", "done", "hung" (inside a call that never returns)
    ret,              \* what the lookup loop returned (at "got" / "done")
    hit,              \* the check_key call that matched: key, line start (at), value start (vs)
    extracted,        \* get_value has been called
    continued,        \* the caller went on scanning after an extraction
    last              \* the last library call: arguments, state before, result

vars == <<src, key, ws, qs, plainCharSigned, engine, file, input, input_value,
          value, line, pc, ret, hit, extracted, continued, last>>

(***************************************************************************)
(* Byte values the code names.                                             *)
(***************************************************************************)
EOF == -1
NULL == -2
NUL == 0
TAB == 9
LF == 10
CR == 13
SP == 32
DQ == 34
SQ == 39
COLON == 58
EQ == 61
LB == 91
BSL == 92
RB == 93
LA == 97
LX == 120
XFF == 255         \* the largest byte value getc delivers

(***************************************************************************)
(* Bounds of the model.                                                    *)
(***************************************************************************)
MaxStr == 3       \* length of the free strings over the key alphabet
MaxVal == 3       \* length of the free value text after "x="
MaxLines == 3     \* lines of a multi-line source
DestSize == 4     \* size of the destination buffer; capacities are 1..DestSize
MaxEsc == 4       \* length of the text after an opening quote
MaxSec == 3       \* length of the text after an opening bracket
MaxChr == 4       \* length of a source that may hold the byte 0xFF

RECURSIVE SeqsUpTo(_, _)
SeqsUpTo(S, n) ==
    IF n = 0 THEN {<<>>}
    ELSE LET R == SeqsUpTo(S, n - 1)
         IN R \cup {<<a>> \o r : a \in S, r \in {q \in R : Len(q) = n - 1}}

RECURSIVE Concat(_)
Concat(ss) == IF ss = <<>> THEN <<>> ELSE Head(ss) \o Concat(Tail(ss))

\* keys are identifiers: "x" and "xa", one a proper prefix of the other
Keys == {<<LX>>, <<LX, LA>>}

KeyAlphabet == {LX, LA, SP, EQ, LF}
ValAlphabet == {LA, SP, DQ, CR}
EscAlphabet == {LA, DQ, BSL}
LineTemplates ==
    { <<LX, COLON, LA, LF>>,
      <<LF>>,
      <<SP, LX, TAB, EQ, SP, LA, TAB, CR, LF>>,
      <<LX, EQ, SP, SQ, LA, DQ, SQ, LA, LF>> }

\* the inputs: a source text and the key looked up in it
Scenarios ==
    (SeqsUpTo(KeyAlphabet, MaxStr) \X {<<LX>>})
    \cup ({<<LX, EQ>> \o v : v \in SeqsUpTo(ValAlphabet, MaxVal)} \X {<<LX>>})
    \cup ({Concat(ls) : ls \in SeqsUpTo(LineTemplates, MaxLines)} \X {<<LX>>})
    \cup ({<<LX, EQ, DQ>> \o v : v \in SeqsUpTo(EscAlphabet, MaxEsc)} \X {<<LX>>})

\* section lines: '[' and a free text, at the start of the source or after a first line
SecAlphabet == {LA, RB, SP, CR, LF}
SectionSources ==
    {pre \o <<LB>> \o t : pre \in {<<>>, <<LA, LF>>}, t \in SeqsUpTo(SecAlphabet, MaxSec)}

\* what the byte in front of the destination buffer may hold
BeforeSection == {NUL, RB}

\* sources for the comparison of char ch with EOF: lines of x= a, with 0xFF
CharAlphabet == {LX, EQ, LA, LF, XFF}

CharSources == SeqsUpTo(CharAlphabet, MaxChr)

(***************************************************************************)
(* C strings and plain char.                                               *)
(***************************************************************************)
\* s[i] of a NUL-terminated string s
CStr(s, i) == IF i < Len(s) THEN s[i + 1] ELSE NUL

\* the conversion of an int (a getc result) to plain char
PlainChar(r) ==
    IF plainCharSigned
    THEN (IF r >= 128 THEN r - 256 ELSE r)
    ELSE r % 256

\* value[idx] = b on a destination of DestSize bytes
Store(buf, idx, b) == IF idx \in DOMAIN buf THEN [buf EXCEPT ![idx] = b] ELSE buf

InitValue == [j \in 0..(DestSize - 1) |-> 85]

(***************************************************************************)
(* stdio on a binary stream: position, one pushed-back byte.               *)
(***************************************************************************)
Ftell(f) == f.pos - Len(f.unget)

Fseek(off) == [pos |-> off, unget |-> <<>>]

Ungetc(c, f) == [f EXCEPT !.unget = <<c % 256>> \o @]

\* char ch = getc(file): the byte read, as plain char, and the stream after it
Getc(f) ==
    IF f.unget # <<>>
    THEN [ch |-> PlainChar(Head(f.unget)), f |-> [f EXCEPT !.unget = Tail(@)]]
    ELSE IF f.pos < Len(src)
         THEN [ch |-> PlainChar(src[f.pos + 1]), f |-> [f EXCEPT !.pos = @ + 1]]
         ELSE [ch |-> PlainChar(EOF), f |-> f]

\* int ch = getc(file): the byte read, or EOF, and the stream after it
GetcInt(f) ==
    IF f.unget # <<>>
    THEN [ch |-> Head(f.unget), f |-> [f EXCEPT !.unget = Tail(@)]]
    ELSE IF f.pos < Len(src)
         THEN [ch |-> src[f.pos + 1], f |-> [f EXCEPT !.pos = @ + 1]]
         ELSE [ch |-> EOF, f |-> f]

(***************************************************************************)
(* Stream engine.                                                          *)
(***************************************************************************)
RECURSIVE next_line_scan(_)
\* next_line_scan without the look-ahead for the end of the source after '\n'
next_line_scan_no_eof_check(g) ==
    IF g.ch = EOF THEN [ret |-> FALSE, f |-> g.f, hang |-> FALSE]
    ELSE IF g.ch = LF
         THEN [ret |-> TRUE, f |-> g.f, hang |-> FALSE]
         ELSE next_line_scan(Getc(g.f))

\* while (ch != EOF) { if (ch == '\n') { ... } ch = getc(file); }
\* When getc gives back the very ch and stream state the iteration started
\* with (at the end of the file, ch being neither EOF nor '\n'), every further
\* iteration is the same one: the loop never ends (hang).
next_line_scan(g) ==
    IF g.ch = EOF THEN [ret |-> FALSE, f |-> g.f, hang |-> FALSE]
    ELSE IF g.ch = LF
         THEN LET h == Getc(g.f)
              IN IF h.ch = EOF
                 THEN [ret |-> FALSE, f |-> h.f, hang |-> FALSE]
                 ELSE [ret |-> TRUE, f |-> Ungetc(h.ch, h.f), hang |-> FALSE]
         ELSE IF Getc(g.f) = g
              THEN [ret |-> FALSE, f |-> g.f, hang |-> TRUE]
              ELSE next_line_scan(Getc(g.f))

kv_parse_next_line(f, line_count) ==
    IF line_count = 0
    THEN [ret |-> TRUE, f |-> f, hang |-> FALSE]
    ELSE next_line_scan(Getc(f))

RECURSIVE skip_ws(_)
skip_ws(g) == IF g.ch = SP \/ g.ch = TAB THEN skip_ws(Getc(g.f)) ELSE g

RECURSIVE check_key_loop(_, _, _)
check_key_loop(g, k, i) ==
    IF g.ch # EOF /\ CStr(k, i) # NUL
    THEN IF g.ch # CStr(k, i)
         THEN [mismatch |-> TRUE, g |-> g]
         ELSE check_key_loop(Getc(g.f), k, i + 1)
    ELSE [mismatch |-> FALSE, g |-> g]

\* kv_parse_check_key without the fseek back to the line start on a mismatch
kv_parse_check_key_no_restore(f, k) ==
    LET g0 == Getc(f)
        g1 == IF ws THEN skip_ws(g0) ELSE g0
        m  == check_key_loop(g1, k, 0)
        g2 == IF ws THEN skip_ws(m.g) ELSE m.g
    IN IF m.mismatch
       THEN [ret |-> FALSE, f |-> m.g.f]
       ELSE IF g2.ch # EQ /\ g2.ch # COLON
            THEN [ret |-> FALSE, f |-> g2.f]
            ELSE [ret |-> TRUE, f |-> g2.f]

kv_parse_check_key(f, k) ==
    LET start_of_line == Ftell(f)
        g0 == Getc(f)
        g1 == IF ws THEN skip_ws(g0) ELSE g0
        m  == check_key_loop(g1, k, 0)
        g2 == IF ws THEN skip_ws(m.g) ELSE m.g
    IN IF m.mismatch
       THEN [ret |-> FALSE, f |-> Fseek(start_of_line)]
       ELSE IF g2.ch # EQ /\ g2.ch # COLON
            THEN [ret |-> FALSE, f |-> Fseek(start_of_line)]
            ELSE [ret |-> TRUE, f |-> g2.f]

\* while (i > 0 && (value[i - 1] == ' ' || value[i - 1] == '\t')) { i--; value[i] = '\0'; }
RECURSIVE trim(_)
trim(t) ==
    IF t.i > 0 /\ (t.value[t.i - 1] = SP \/ t.value[t.i - 1] = TAB)
    THEN trim([i |-> t.i - 1, value |-> Store(t.value, t.i - 1, NUL), wr |-> t.wr \cup {t.i - 1}])
    ELSE t

\* terminate without the trailing trim
terminate_no_trim(st) ==
    [i |-> st.i, value |-> Store(st.value, st.i, NUL), wr |-> st.wr \cup {st.i}]

\* value[i] = '\0', then the trailing trim when whitespace skip is enabled
terminate(st) ==
    LET t0 == [i |-> st.i, value |-> Store(st.value, st.i, NUL), wr |-> st.wr \cup {st.i}]
    IN IF ws THEN trim(t0) ELSE t0

\* end_of_line that does not take '\r' for an end of line
end_of_line_lf_only(ch) == ch = EOF \/ ch = LF

\* if (ch == EOF || ch == '\r' || ch == '\n')
end_of_line(ch) == ch = EOF \/ ch = CR \/ ch = LF

\* the End Of Line branch: seek back to the value start, push '\n' back, terminate
value_at_end_of_line(st, start_of_value) ==
    LET f1 == Fseek(start_of_value)
        f2 == IF st.g.ch = LF THEN Ungetc(LF, f1) ELSE f1
        t  == terminate(st)
    IN [ret |-> t.i, f |-> f2, value |-> t.value, wr |-> t.wr, path |-> "eol"]

\* the End Of Quoted String branch
value_at_closing_quote(st, start_of_value) ==
    [ret |-> st.i, f |-> Fseek(start_of_value), value |-> Store(st.value, st.i, NUL),
     wr |-> st.wr \cup {st.i}, path |-> "quote"]

\* value_too_large without the fseek back to the value start
value_too_large_keeps_position(st, start_of_value) ==
    [ret |-> 0, f |-> st.g.f, value |-> Store(st.value, 0, NUL),
     wr |-> st.wr \cup {0}, path |-> "overflow"]

\* after the loop: Value too large for buffer
value_too_large(st, start_of_value) ==
    [ret |-> 0, f |-> Fseek(start_of_value), value |-> Store(st.value, 0, NUL),
     wr |-> st.wr \cup {0}, path |-> "overflow"]

\* opens_quote that knows the double quote only
opens_quote_double_only(quote, ch) == qs /\ quote = EOF /\ ch = DQ

\* else if (quote == EOF && (ch == '\'' || ch == '"'))
opens_quote(quote, ch) == qs /\ quote = EOF /\ (ch = SQ \/ ch = DQ)

\* else if (quote != EOF && prev != '\\' && ch == quote)
closes_quote(quote, prev, ch) == qs /\ quote # EOF /\ prev # BSL /\ ch = quote

\* escapes_quote of an engine without the escape branch
escapes_quote_never(quote, prev, ch) == FALSE

\* else if (quote != EOF && prev == '\\' && ch == quote)
escapes_quote(quote, prev, ch) == qs /\ quote # EOF /\ prev = BSL /\ ch = quote

\* for (int i = 0; i < (value_max - 1); ch = getc(file))
RECURSIVE get_value_loop(_, _, _)
get_value_loop(st, start_of_value, value_max) ==
    IF ~(st.i < value_max - 1)
    THEN value_too_large(st, start_of_value)
    ELSE LET ch == st.g.ch
             nx == Getc(st.g.f)
         IN IF end_of_line(ch)
            THEN value_at_end_of_line(st, start_of_value)
            ELSE IF opens_quote(st.quote, ch)
            THEN get_value_loop([st EXCEPT !.quote = ch, !.g = nx], start_of_value, value_max)
            ELSE IF closes_quote(st.quote, st.prev, ch)
            THEN value_at_closing_quote(st, start_of_value)
            ELSE IF escapes_quote(st.quote, st.prev, ch)
            THEN get_value_loop([st EXCEPT !.value = Store(@, st.i - 1, IF ch = EOF THEN NUL ELSE ch),
                                           !.wr = @ \cup {st.i - 1},
                                           !.g = nx], start_of_value, value_max)
            ELSE get_value_loop([st EXCEPT !.prev = IF qs THEN ch ELSE @,
                                           !.value = Store(@, st.i, IF ch = EOF THEN NUL ELSE ch),
                                           !.wr = @ \cup {st.i},
                                           !.i = @ + 1,
                                           !.g = nx], start_of_value, value_max)

\* kv_parse_get_value that skips leading blanks whatever the build
kv_parse_get_value_always_skips(f, buf, value_max) ==
    LET start_of_value == Ftell(f)
        g1 == skip_ws(Getc(f))
    IN get_value_loop([i |-> 0, g |-> g1, quote |-> EOF, prev |-> EOF, value |-> buf, wr |-> {}],
                      start_of_value, value_max)

kv_parse_get_value(f, buf, value_max) ==
    LET start_of_value == Ftell(f)
        g0 == Getc(f)
        g1 == IF ws THEN skip_ws(g0) ELSE g0
    IN get_value_loop([i |-> 0, g |-> g1, quote |-> EOF, prev |-> EOF, value |-> buf, wr |-> {}],
                      start_of_value, value_max)

\* the End Of Line branch of check_section, from section[i] = '\0' on; the
\* test section[i - 1] != ']' reads the byte in front of the buffer when
\* nothing is left (i = 0): before stands for that byte, and with ']' there
\* the code goes on to i = -1, section[-1] = '\0' and return (size_t)-1
section_at_end_of_line(st, before) ==
    LET t == trim([i |-> st.i, value |-> Store(st.value, st.i, NUL), wr |-> st.wr \cup {st.i}])
        closing == IF t.i > 0 THEN t.value[t.i - 1] ELSE before
        rd == (t.i - 1)..(st.i - 1)
    IN IF closing # RB
       THEN [ret |-> 0, value |-> Store(t.value, 0, NUL), wr |-> t.wr \cup {0}, rd |-> rd,
             path |-> "no_bracket"]
       ELSE [ret |-> t.i - 1, value |-> Store(t.value, t.i - 1, NUL), wr |-> t.wr \cup {t.i - 1},
             rd |-> rd, path |-> "section"]

\* after the loop: Value too large for buffer
section_too_large(st) ==
    [ret |-> 0, value |-> Store(st.value, 0, NUL), wr |-> st.wr \cup {0}, rd |-> {}, path |-> "overflow"]

\* for (int i = 0; i < (section_max - 1); ch = getc(file))
RECURSIVE check_section_loop(_, _, _)
check_section_loop(st, section_max, before) ==
    IF ~(st.i < section_max - 1)
    THEN section_too_large(st)
    ELSE IF st.g.ch = EOF \/ st.g.ch = CR \/ st.g.ch = LF
         THEN section_at_end_of_line(st, before)
         ELSE check_section_loop([st EXCEPT !.value = Store(@, st.i, st.g.ch),
                                            !.wr = @ \cup {st.i},
                                            !.i = @ + 1,
                                            !.g = GetcInt(st.g.f)], section_max, before)

\* every return of kv_parse_check_section is preceded by fseek(file, start_of_line, SEEK_SET)
kv_parse_check_section(f, buf, section_max, before) ==
    LET start_of_line == Ftell(f)
        g0 == GetcInt(f)
    IN IF g0.ch # LB
       THEN [ret |-> 0, f |-> Fseek(start_of_line), value |-> buf, wr |-> {}, rd |-> {},
             path |-> "no_match"]
       ELSE LET r == check_section_loop([i |-> 0, g |-> GetcInt(g0.f), value |-> buf, wr |-> {}],
                                        section_max, before)
            IN [ret |-> r.ret, f |-> Fseek(start_of_line), value |-> r.value, wr |-> r.wr,
                rd |-> r.rd, path |-> r.path]

(***************************************************************************)
(* Buffer engine.  A pointer is an offset into the string; *str at the     *)
(* offset Len(src) is the terminator.                                      *)
(***************************************************************************)
Deref(p) == CStr(src, p)

RECURSIVE buffer_next_line_scan(_, _)
buffer_next_line_scan(ch, str) ==
    IF ch = NUL THEN NULL
    ELSE IF ch = LF
         THEN (IF Deref(str) = NUL THEN NULL ELSE str)
         ELSE buffer_next_line_scan(Deref(str), str + 1)

\* kv_parse_buffer_next_line without the test for the first line
kv_parse_buffer_next_line_always_scans(str, line_count) ==
    buffer_next_line_scan(Deref(str), str + 1)

kv_parse_buffer_next_line(str, line_count) ==
    IF line_count = 0
    THEN str
    ELSE buffer_next_line_scan(Deref(str), str + 1)

RECURSIVE buffer_skip_ws(_)
buffer_skip_ws(str) ==
    IF Deref(str) = SP \/ Deref(str) = TAB THEN buffer_skip_ws(str + 1) ELSE str

RECURSIVE buffer_check_key_loop(_, _, _)
buffer_check_key_loop(str, k, i) ==
    IF Deref(str) # NUL /\ CStr(k, i) # NUL
    THEN IF Deref(str) # CStr(k, i)
         THEN NULL
         ELSE buffer_check_key_loop(str + 1, k, i + 1)
    ELSE str

\* kv_parse_buffer_check_key without the test for the delimiter after the key
kv_parse_buffer_check_key_no_delimiter(str, k) ==
    LET s1 == IF ws THEN buffer_skip_ws(str) ELSE str
        s2 == buffer_check_key_loop(s1, k, 0)
        s3 == IF s2 = NULL THEN NULL ELSE IF ws THEN buffer_skip_ws(s2) ELSE s2
    IN IF s3 = NULL THEN NULL ELSE s3 + 1

kv_parse_buffer_check_key(str, k) ==
    LET s1 == IF ws THEN buffer_skip_ws(str) ELSE str
        s2 == buffer_check_key_loop(s1, k, 0)
        s3 == IF s2 = NULL THEN NULL ELSE IF ws THEN buffer_skip_ws(s2) ELSE s2
    IN IF s3 = NULL THEN NULL
       ELSE IF Deref(s3) # EQ /\ Deref(s3) # COLON THEN NULL
       ELSE s3 + 1

\* buffer_end_of_line that does not take '\r' for an end of line
buffer_end_of_line_no_cr(ch) == ch = NUL \/ ch = LF

\* if (*str == '\0' || *str == '\r' || *str == '\n')
buffer_end_of_line(ch) == ch = NUL \/ ch = CR \/ ch = LF

\* the End Of Line branch
buffer_value_at_end_of_line(st) ==
    LET t == terminate(st)
    IN [ret |-> t.i, value |-> t.value, wr |-> t.wr, path |-> "eol"]

\* the End Of Quoted String branch
buffer_value_at_closing_quote(st) ==
    [ret |-> st.i, value |-> Store(st.value, st.i, NUL), wr |-> st.wr \cup {st.i}, path |-> "quote"]

\* after the loop: Value too large for buffer
buffer_value_too_large(st) ==
    [ret |-> 0, value |-> Store(st.value, 0, NUL), wr |-> st.wr \cup {0}, path |-> "overflow"]

\* else if (quote == '\0' && (*str == '\'' || *str == '"'))
buffer_opens_quote(quote, ch) == qs /\ quote = NUL /\ (ch = SQ \/ ch = DQ)

\* else if (quote != '\0' && prev != '\\' && *str == quote)
buffer_closes_quote(quote, prev, ch) == qs /\ quote # NUL /\ prev # BSL /\ ch = quote

\* else if (quote != '\0' && prev == '\\' && *str == quote)
buffer_escapes_quote(quote, prev, ch) == qs /\ quote # NUL /\ prev = BSL /\ ch = quote

\* for (int i = 0; i < (value_max - 1); str++)
RECURSIVE buffer_get_value_loop(_, _)
buffer_get_value_loop(st, value_max) ==
    IF ~(st.i < value_max - 1)
    THEN buffer_value_too_large(st)
    ELSE LET ch == Deref(st.str)
         IN IF buffer_end_of_line(ch)
            THEN buffer_value_at_end_of_line(st)
            ELSE IF buffer_opens_quote(st.quote, ch)
            THEN buffer_get_value_loop([st EXCEPT !.quote = ch, !.str = @ + 1], value_max)
            ELSE IF buffer_closes_quote(st.quote, st.prev, ch)
            THEN buffer_value_at_closing_quote(st)
            ELSE IF buffer_escapes_quote(st.quote, st.prev, ch)
            THEN buffer_get_value_loop([st EXCEPT !.value = Store(@, st.i - 1, IF ch = NUL THEN NUL ELSE ch),
                                                  !.wr = @ \cup {st.i - 1},
                                                  !.str = @ + 1], value_max)
            ELSE buffer_get_value_loop([st EXCEPT !.prev = IF qs THEN ch ELSE @,
                                                  !.value = Store(@, st.i, IF ch = NUL THEN NUL ELSE ch),
                                                  !.wr = @ \cup {st.i},
                                                  !.i = @ + 1,
                                                  !.str = @ + 1], value_max)

kv_parse_buffer_get_value(str, buf, value_max) ==
    LET s1 == IF ws THEN buffer_skip_ws(str) ELSE str
    IN buffer_get_value_loop([i |-> 0, str |-> s1, quote |-> NUL, prev |-> NUL, value |-> buf, wr |-> {}],
                             value_max)

\* for (int i = 0; i < (section_max - 1); str++)
RECURSIVE buffer_check_section_loop(_, _, _)
buffer_check_section_loop(st, section_max, before) ==
    IF ~(st.i < section_max - 1)
    THEN section_too_large(st)
    ELSE IF buffer_end_of_line(Deref(st.str))
         THEN section_at_end_of_line(st, before)
         ELSE buffer_check_section_loop([st EXCEPT !.value = Store(@, st.i, Deref(st.str)),
                                                   !.wr = @ \cup {st.i},
                                                   !.i = @ + 1,
                                                   !.str = @ + 1], section_max, before)

kv_parse_buffer_check_section(str, buf, section_max, before) ==
    IF Deref(str) # LB
    THEN [ret |-> 0, value |-> buf, wr |-> {}, rd |-> {}, path |-> "no_match"]
    ELSE buffer_check_section_loop([i |-> 0, str |-> str + 1, value |-> buf, wr |-> {}],
                                   section_max, before)

(***************************************************************************)
(* The lookup functions of test.c, each as one call.                       *)
(***************************************************************************)
\* for (line = 0; kv_parse_next_line(file, line); line++) ... return 0;
RECURSIVE kv_parse_loop(_, _, _, _, _)
\* kv_parse_loop that goes on to the next line when get_value returns 0
kv_parse_loop_skips_empty(f, ln, k, buf, value_max) ==
    LET n == kv_parse_next_line(f, ln)
        c == kv_parse_check_key(n.f, k)
        r == kv_parse_get_value(c.f, buf, value_max)
    IN IF ~n.ret THEN [ret |-> 0, value |-> buf, hang |-> n.hang]
       ELSE IF c.ret /\ r.ret # 0
            THEN [ret |-> r.ret, value |-> r.value, hang |-> FALSE]
            ELSE kv_parse_loop(IF c.ret THEN r.f ELSE c.f, ln + 1, k, buf, value_max)

kv_parse_loop(f, ln, k, buf, value_max) ==
    LET n == kv_parse_next_line(f, ln)
        c == kv_parse_check_key(n.f, k)
    IN IF ~n.ret THEN [ret |-> 0, value |-> buf, hang |-> n.hang]
       ELSE IF c.ret
            THEN LET r == kv_parse_get_value(c.f, buf, value_max)
                 IN [ret |-> r.ret, value |-> r.value, hang |-> FALSE]
            ELSE kv_parse_loop(c.f, ln + 1, k, buf, value_max)

\* rewind(file), then the loop
kv_parse(k, buf, value_max) == kv_parse_loop(Fseek(0), 0, k, buf, value_max)

RECURSIVE kv_parse_buffer_loop(_, _, _, _, _)
kv_parse_buffer_loop(str, ln, k, buf, value_max) ==
    LET n == kv_parse_buffer_next_line(str, ln)
        c == kv_parse_buffer_check_key(n, k)
    IN IF n = NULL THEN [ret |-> 0, value |-> buf, hang |-> FALSE]
       ELSE IF c # NULL
            THEN LET r == kv_parse_buffer_get_value(c, buf, value_max)
                 IN [ret |-> r.ret, value |-> r.value, hang |-> FALSE]
            ELSE kv_parse_buffer_loop(n, ln + 1, k, buf, value_max)

kv_parse_buffer(k, buf, value_max) == kv_parse_buffer_loop(0, 0, k, buf, value_max)

(***************************************************************************)
(* The caller: the lookup loop of test.c (kv_parse / kv_parse_buffer), a   *)
(* caller that tries another key on a line first, one that repeats         *)
(* get_value with a larger capacity after a failure, and one that keeps    *)
(* scanning after an extraction.                                           *)
(***************************************************************************)
NoCall == [op |-> "none", arg |-> <<>>, ret |-> 0, path |-> "none", wr |-> {}, rd |-> {},
           pre |-> 0, preValue |-> <<>>, retry |-> FALSE, cont |-> FALSE, hang |-> FALSE]

NoHit == [key |-> <<>>, at |-> NULL, vs |-> NULL]

Init ==
    /\ \E sc \in Scenarios : src = sc[1] /\ key = sc[2]
    /\ ws \in BOOLEAN
    /\ qs \in BOOLEAN
    /\ plainCharSigned = TRUE
    /\ engine \in {"stream", "buffer"}
    /\ file = Fseek(0)
    /\ input = 0
    /\ input_value = NULL
    /\ value = InitValue
    /\ line = 0
    /\ pc = "next_line"
    /\ ret = 0
    /\ hit = NoHit
    /\ extracted = FALSE
    /\ continued = FALSE
    /\ last = NoCall

\* for (line = 0; kv_parse_next_line(file, line); line++), also called once
\* more by a caller that goes on to the next line after a successful get_value
NextLine ==
    /\ pc = "next_line" \/ (pc = "got" /\ last.path # "overflow")
    \* a loop that is given more lines than the source has bytes is not followed further
    /\ line <= Len(src) + 1
    /\ LET n == IF pc = "got" THEN line + 1 ELSE line
           call == [NoCall EXCEPT !.op = "next_line", !.arg = n, !.preValue = value,
                                  !.cont = (pc = "got")]
       IN /\ line' = n
          /\ IF engine = "stream"
             THEN LET r == kv_parse_next_line(file, n)
                  IN /\ file' = r.f
                     /\ input' = input
                     /\ pc' = IF r.hang THEN "hung"
                              ELSE IF pc = "got" THEN "scanned_on"
                              ELSE IF r.ret THEN "check_key" ELSE "done"
                     /\ last' = [call EXCEPT !.pre = file, !.ret = r.ret, !.hang = r.hang]
             ELSE LET r == kv_parse_buffer_next_line(input, n)
                  IN /\ input' = r
                     /\ file' = file
                     /\ pc' = IF pc = "got" THEN "scanned_on"
                              ELSE IF r # NULL THEN "check_key" ELSE "done"
                     /\ last' = [call EXCEPT !.pre = input, !.ret = (r # NULL)]
    /\ continued' = (continued \/ pc = "got")
    /\ ret' = IF pc' = "done" /\ ~extracted THEN 0 ELSE ret
    /\ UNCHANGED <<src, key, ws, qs, plainCharSigned, engine, input_value, value, hit, extracted>>

\* if (kv_parse_check_key(file, key)): with the lookup key the loop goes on to
\* get_value on a match and to the next line on a mismatch; a caller may try
\* another key on the line first
CheckKey(k) ==
    /\ pc = "check_key"
    /\ LET call == [NoCall EXCEPT !.op = "check_key", !.arg = k, !.preValue = value]
       IN IF engine = "stream"
          THEN LET r == kv_parse_check_key(file, k)
               IN /\ file' = r.f
                  /\ input_value' = input_value
                  /\ last' = [call EXCEPT !.pre = file, !.ret = r.ret]
                  /\ hit' = IF r.ret THEN [key |-> k, at |-> Ftell(file), vs |-> Ftell(r.f)] ELSE hit
          ELSE LET r == kv_parse_buffer_check_key(input, k)
               IN /\ input_value' = r
                  /\ file' = file
                  /\ last' = [call EXCEPT !.pre = input, !.ret = (r # NULL)]
                  /\ hit' = IF r # NULL THEN [key |-> k, at |-> input, vs |-> r] ELSE hit
    /\ pc' = IF last'.ret THEN (IF k = key THEN "get_value" ELSE "other_key")
             ELSE IF k = key THEN "next_line" ELSE "check_key"
    /\ line' = IF ~last'.ret /\ k = key THEN line + 1 ELSE line
    /\ UNCHANGED <<src, key, ws, qs, plainCharSigned, engine, input, value, ret, extracted, continued>>

\* return kv_parse_get_value(file, value, value_max), also repeated once with
\* the whole destination by a caller whose capacity was too small
GetValue(value_max) ==
    /\ \/ pc = "get_value"
       \/ /\ pc = "got" /\ last.op = "get_value" /\ last.path = "overflow"
          /\ ~last.retry /\ value_max > last.arg /\ value_max = DestSize
    /\ LET call == [NoCall EXCEPT !.op = "get_value", !.arg = value_max, !.preValue = value,
                                  !.retry = (pc = "got")]
       IN IF engine = "stream"
          THEN LET r == kv_parse_get_value(file, value, value_max)
               IN /\ file' = r.f
                  /\ value' = r.value
                  /\ ret' = r.ret
                  /\ last' = [call EXCEPT !.pre = file, !.ret = r.ret, !.path = r.path, !.wr = r.wr]
          ELSE LET r == kv_parse_buffer_get_value(input_value, value, value_max)
               IN /\ file' = file
                  /\ value' = r.value
                  /\ ret' = r.ret
                  /\ last' = [call EXCEPT !.pre = input_value, !.ret = r.ret, !.path = r.path, !.wr = r.wr]
    /\ pc' = "got"
    /\ extracted' = TRUE
    /\ UNCHANGED <<src, key, ws, qs, plainCharSigned, engine, input, input_value, line, hit, continued>>

\* kv_parse_check_section(file, section, section_max) at the start of a line,
\* by a caller that looks for the first section header of the source
CheckSection(section_max, before) ==
    /\ pc = "check_key"
    /\ LET call == [NoCall EXCEPT !.op = "check_section", !.arg = section_max, !.preValue = value]
       IN IF engine = "stream"
          THEN LET r == kv_parse_check_section(file, value, section_max, before)
               IN /\ file' = r.f
                  /\ value' = r.value
                  /\ ret' = r.ret
                  /\ last' = [call EXCEPT !.pre = file, !.ret = r.ret, !.path = r.path,
                                          !.wr = r.wr, !.rd = r.rd]
          ELSE LET r == kv_parse_buffer_check_section(input, value, section_max, before)
               IN /\ file' = file
                  /\ value' = r.value
                  /\ ret' = r.ret
                  /\ last' = [call EXCEPT !.pre = input, !.ret = r.ret, !.path = r.path,
                                          !.wr = r.wr, !.rd = r.rd]
    /\ pc' = IF last'.path = "section" THEN "section" ELSE "next_line"
    /\ line' = IF last'.path = "section" THEN line ELSE line + 1
    /\ UNCHANGED <<src, key, ws, qs, plainCharSigned, engine, input, input_value, hit,
                   extracted, continued>>

Next ==
    \/ NextLine
    \/ \E k \in Keys : CheckKey(k)
    \/ \E value_max \in 1..DestSize : GetValue(value_max)

Spec == Init /\ [][Next]_vars

\* the section header scan: the same caller state over the section sources
InitSection ==
    /\ src \in SectionSources
    /\ key = <<LX>>
    /\ ws \in BOOLEAN
    /\ qs = TRUE
    /\ plainCharSigned = TRUE
    /\ engine \in {"stream", "buffer"}
    /\ file = Fseek(0)
    /\ input = 0
    /\ input_value = NULL
    /\ value = InitValue
    /\ line = 0
    /\ pc = "next_line"
    /\ ret = 0
    /\ hit = NoHit
    /\ extracted = FALSE
    /\ continued = FALSE
    /\ last = NoCall

NextSection ==
    \/ NextLine
    \/ \E section_max \in 1..DestSize, before \in BeforeSection : CheckSection(section_max, before)

SpecSection == InitSection /\ [][NextSection]_vars

(***************************************************************************)
(* Notions of the specification, stated on the source text.                *)
(***************************************************************************)
Stream == engine = "stream"

ByteAt(p) == IF p >= 0 /\ p < Len(src) THEN src[p + 1] ELSE NUL

Blank(c) == c = SP \/ c = TAB

\* the text from offset p to the end of the source
Rest(p) == SubSeq(src, p + 1, Len(src))

\* what the stream delivers from now on: the pushed-back byte, then the file
View(f) == f.unget \o Rest(f.pos)

\* the C string held by a buffer
RECURSIVE StrFrom(_, _)
StrFrom(buf, j) ==
    IF j \notin DOMAIN buf \/ buf[j] = NUL THEN <<>> ELSE <<buf[j]>> \o StrFrom(buf, j + 1)

StrOf(buf) == StrFrom(buf, 0)

\* offsets at which a line of the source starts: 0, and after every '\n' that
\* is not the last byte
LineStarts == {0} \cup {p \in 1..(Len(src) - 1) : src[p] = LF}

NthLineStart(n) == CHOOSE q \in LineStarts : Cardinality({r \in LineStarts : r < q}) = n

\* index of the first '\n' of a text, 0 when it has none
FirstLF(s) ==
    IF \E i \in DOMAIN s : s[i] = LF
    THEN CHOOSE i \in DOMAIN s : s[i] = LF /\ \A j \in 1..(i - 1) : s[j] # LF
    ELSE 0

\* the text from offset p up to, and excluding, the first '\r', '\n' or end of source
RECURSIVE LineRest(_)
LineRest(p) ==
    IF ByteAt(p) \in {NUL, CR, LF} THEN <<>> ELSE <<ByteAt(p)>> \o LineRest(p + 1)

RECURSIVE StripLeft(_)
StripLeft(s) == IF s # <<>> /\ Blank(Head(s)) THEN StripLeft(Tail(s)) ELSE s

RECURSIVE StripRight(_)
StripRight(s) ==
    IF s # <<>> /\ Blank(s[Len(s)]) THEN StripRight(SubSeq(s, 1, Len(s) - 1)) ELSE s

\* the plain (unquoted) value of the line whose value region starts at vs
PlainValue(vs) == IF ws THEN StripRight(StripLeft(LineRest(vs))) ELSE LineRest(vs)

HasQuote(s) == \E i \in DOMAIN s : s[i] = SQ \/ s[i] = DQ

\* the cursor of the engine in use
Cursor == IF Stream THEN Ftell(file) ELSE input

\* the cursor a call recorded in last started from
PreCursor == IF Stream THEN Ftell(last.pre) ELSE last.pre

\* check_key called afresh at offset p
MatchesAt(p, k) ==
    IF Stream THEN kv_parse_check_key(Fseek(p), k).ret
    ELSE kv_parse_buffer_check_key(p, k) # NULL

ValueStartAt(p, k) ==
    IF Stream THEN Ftell(kv_parse_check_key(Fseek(p), k).f)
    ELSE kv_parse_buffer_check_key(p, k)

\* get_value called afresh at offset vs on a destination buf
ExtractInto(vs, buf, cap) ==
    LET r == IF Stream THEN kv_parse_get_value(Fseek(vs), buf, cap)
             ELSE kv_parse_buffer_get_value(vs, buf, cap)
    IN [ret |-> r.ret, str |-> StrOf(r.value), path |-> r.path]

Extract(vs, cap) == ExtractInto(vs, InitValue, cap)

\* the value get_value extracts at vs when the destination is larger than the source
FullValue(vs) == ExtractInto(vs, [j \in 0..(Len(src) + 1) |-> 85], Len(src) + 2).str

\* C1: the lookup loop returns the value of the first line, in source order,
\* on which check_key matches the key, whatever precedes that line; when it
\* finds nothing no line matches.
C1_FirstMatchWins ==
    /\ (pc = "got" /\ ~continued /\ ~last.retry) =>
          /\ hit.key = key
          /\ hit.at \in LineStarts
          /\ \A q \in LineStarts : q < hit.at => ~MatchesAt(q, key)
          /\ MatchesAt(hit.at, key)
          /\ LET e == Extract(ValueStartAt(hit.at, key), last.arg)
             IN ret = e.ret /\ StrOf(value) = e.str
    /\ (pc = "done" /\ ~extracted) => \A q \in LineStarts : ~MatchesAt(q, key)

C1_Witness ==
    /\ pc = "got" /\ ~continued /\ ~last.retry /\ ret > 0
    /\ hit.at > 0
    /\ \E q \in LineStarts : q > hit.at /\ MatchesAt(q, key)
    /\ \E q \in LineStarts : q < hit.at /\ ByteAt(q) = LF

\* C2: the usable capacity of get_value is capacity - 1: a value of length
\* L <= C - 1 is returned whole with its length, and only a value of length
\* L >= C gives 0 and an empty destination instead.
C2_UsableCapacity ==
    (last.op = "get_value" /\ ~last.retry) =>
        LET V == FullValue(hit.vs)
            C == last.arg
        IN /\ Len(V) <= C - 1 => (ret = Len(V) /\ StrOf(value) = V)
           /\ Len(V) >= C => (ret = 0 /\ value[0] = NUL)

\* C3: a value that does not fit gives 0 and an empty destination, never a
\* truncated prefix; the stream cursor is then at the value start, and a
\* repeated get_value behaves as a first one: with a capacity that suffices
\* it returns the complete value.
C3_NoTruncation ==
    last.op = "get_value" =>
        LET V == FullValue(hit.vs)
            C == last.arg
        IN /\ Len(V) >= C => last.path = "overflow"
           /\ last.path = "overflow" =>
                 /\ ret = 0
                 /\ value[0] = NUL
                 /\ Stream => file = Fseek(hit.vs)
           /\ last.retry =>
                 /\ ret = Extract(hit.vs, C).ret
                 /\ StrOf(value) = Extract(hit.vs, C).str
                 /\ last.path # "overflow" => (ret = Len(V) /\ StrOf(value) = V)
                 /\ C >= Len(LineRest(hit.vs)) + 2 => last.path # "overflow"

C3_Witness ==
    /\ Stream /\ last.op = "get_value" /\ last.retry
    /\ last.path # "overflow" /\ ret > 1

\* C4: a value region without a quote character (or with quoted strings
\* disabled) that fits the destination is returned exactly: the bytes after
\* the delimiter up to the first '\r', '\n' or end of source, blanks stripped
\* at both ends when whitespace skip is enabled, further '=' or ':' kept.
C4_PlainValue ==
    (/\ last.op = "get_value"
     /\ ~qs \/ ~HasQuote(LineRest(hit.vs))
     /\ Len(PlainValue(hit.vs)) <= last.arg - 1)
    => (ret = Len(PlainValue(hit.vs)) /\ StrOf(value) = PlainValue(hit.vs))

\* the same with a capacity of at least the length of the rest of the line plus 2
C4_PlainValueAmpleCapacity ==
    (/\ last.op = "get_value"
     /\ ~qs \/ ~HasQuote(LineRest(hit.vs))
     /\ Len(LineRest(hit.vs)) + 2 <= last.arg)
    => (ret = Len(PlainValue(hit.vs)) /\ StrOf(value) = PlainValue(hit.vs))

\* the line at offset p reads: a blanks, the key k, b blanks, a delimiter
KeyParse(p, k, a, b) ==
    /\ \A j \in 0..(a - 1) : Blank(ByteAt(p + j))
    /\ \A i \in 0..(Len(k) - 1) : ByteAt(p + a + i) = k[i + 1]
    /\ \A j \in 0..(b - 1) : Blank(ByteAt(p + a + Len(k) + j))
    /\ ByteAt(p + a + Len(k) + b) \in {EQ, COLON}

Pads == IF ws THEN 0..Len(src) ELSE {0}

\* C5: check_key matches exactly when the line at the cursor is (blanks, when
\* whitespace skip is enabled) the key (blanks) '=' or ':'; on a match the
\* cursor (the returned pointer) is immediately after the delimiter.
C5_ExactKey ==
    last.op = "check_key" =>
        /\ last.ret <=> \E a \in Pads, b \in Pads : KeyParse(PreCursor, last.arg, a, b)
        /\ last.ret =>
              \E a \in Pads, b \in Pads :
                  /\ KeyParse(PreCursor, last.arg, a, b)
                  /\ LET after == PreCursor + a + Len(last.arg) + b + 1
                     IN IF Stream THEN file = Fseek(after) ELSE input_value = after

C5_Witness ==
    /\ last.op = "check_key" /\ last.ret /\ Stream
    /\ PreCursor > 0
    /\ Blank(ByteAt(PreCursor))
    /\ Blank(ByteAt(hit.vs - 2))

C5_WitnessPrefix ==
    /\ last.op = "check_key" /\ ~last.ret
    /\ last.arg = <<LX>>
    /\ ByteAt(PreCursor) = LX /\ ByteAt(PreCursor + 1) = LA /\ ByteAt(PreCursor + 2) = EQ
\* C6: a check_key that does not match has no effect: the destination is
\* untouched and the cursor is back at the line start, so that any check_key
\* that follows on the line behaves as if it had been called first; a lookup
\* that finds no matching line returns 0 with every destination byte unchanged.
C6_FailedCheckNoEffect ==
    /\ (last.op = "check_key" /\ ~last.ret) =>
          /\ value = last.preValue
          /\ Stream =>
                /\ Ftell(file) = Ftell(last.pre)
                /\ View(file) = View(last.pre)
                /\ \A k \in Keys :
                      LET now == kv_parse_check_key(file, k)
                          first == kv_parse_check_key(last.pre, k)
                      IN now.ret = first.ret /\ (now.ret => now.f = first.f)
          /\ ~Stream => input = last.pre
    /\ (pc = "done" /\ ~extracted) => (ret = 0 /\ value = InitValue)
    /\ (extracted /\ ~continued) => \E q \in LineStarts : MatchesAt(q, key)

C6_Witness ==
    /\ Stream /\ pc = "check_key"
    /\ last.op = "check_key" /\ ~last.ret /\ last.arg # key
    /\ last.pre.unget # <<>>
    /\ kv_parse_check_key(file, key).ret

\* C7: next_line with index 0 succeeds and leaves the cursor alone; with
\* another index it succeeds exactly when a '\n' lies at or after the cursor
\* and a byte follows it, and the cursor is then just after that first '\n',
\* strictly beyond where it was; otherwise it fails.  The lookup loop visits
\* the lines of the source in order, one successful call per line.
C7_NextLine ==
    /\ last.op = "next_line" =>
          LET view == IF Stream THEN View(last.pre) ELSE Rest(last.pre)
              j == FirstLF(view)
          IN IF last.arg = 0
             THEN last.ret /\ (IF Stream THEN file = last.pre ELSE input = last.pre)
             ELSE /\ last.ret <=> (j > 0 /\ j < Len(view))
                  /\ last.ret =>
                        IF Stream
                        THEN /\ View(file) = SubSeq(view, j + 1, Len(view))
                             /\ Ftell(file) = Ftell(last.pre) + j
                             /\ Ftell(file) > Ftell(last.pre)
                        ELSE input = last.pre + j /\ input > last.pre
                  /\ (~last.ret /\ ~Stream) => input = NULL
    /\ (pc = "check_key" /\ ~continued) =>
          (line < Cardinality(LineStarts) /\ Cursor = NthLineStart(line))
    /\ (pc = "done" /\ ~continued /\ ~extracted) => line = Cardinality(LineStarts)

C7_Witness ==
    /\ last.op = "next_line" /\ last.arg = 2 /\ ~last.ret
    /\ src[Len(src)] = LF
    /\ pc = "done" /\ ~continued

C7_WitnessAdvance ==
    /\ last.op = "next_line" /\ last.arg = 2 /\ last.ret /\ Stream
    /\ ~continued /\ Ftell(file) > Ftell(last.pre) + 1

C9_DestinationBounds ==
    last.op = "get_value" =>
        /\ last.wr \subseteq 0..(last.arg - 1)
        /\ ret <= last.arg - 1
        /\ value[ret] = NUL
        /\ \A j \in 0..(ret - 1) : value[j] \notin {NUL, CR, LF}
        /\ \A j \in DOMAIN value : j \notin last.wr => value[j] = last.preValue[j]

C9_Witness ==
    /\ last.op = "get_value" /\ ret > 0
    /\ Len(Rest(hit.vs)) > ret /\ ByteAt(hit.vs + ret) = CR /\ ByteAt(hit.vs + ret + 1) # LF

\* the offset of the first non-skipped byte of the value region starting at vs
RECURSIVE SkipBlanks(_)
SkipBlanks(p) == IF ws /\ Blank(ByteAt(p)) THEN SkipBlanks(p + 1) ELSE p

\* the line has a quoted value at vs: an opening quote first, the same quote
\* again later on the line
Quoted(vs) ==
    LET o == SkipBlanks(vs)
        inner == LineRest(o + 1)
    IN /\ ByteAt(o) \in {SQ, DQ}
       /\ \E i \in DOMAIN inner : inner[i] = ByteAt(o)

\* the bytes between the opening quote and the next occurrence of that quote
QuotedBody(vs) ==
    LET o == SkipBlanks(vs)
        inner == LineRest(o + 1)
        c == CHOOSE i \in DOMAIN inner : inner[i] = ByteAt(o) /\ \A j \in 1..(i - 1) : inner[j] # ByteAt(o)
    IN SubSeq(inner, 1, c - 1)

\* C10: with quoted strings enabled, a value that opens with a quote and holds
\* no backslash yields exactly the bytes between that quote and its next
\* occurrence: no quote is written, the other kind of quote and blanks inside
\* are kept, what follows the closing quote is ignored.
C10_QuotedValue ==
    (/\ last.op = "get_value"
     /\ qs
     /\ Quoted(hit.vs)
     /\ \A i \in DOMAIN LineRest(hit.vs) : LineRest(hit.vs)[i] # BSL)
    => /\ last.arg >= Len(QuotedBody(hit.vs)) + 2 => last.path = "quote"
       /\ last.path # "overflow" =>
             /\ last.path = "quote"
             /\ ret = Len(QuotedBody(hit.vs))
             /\ StrOf(value) = QuotedBody(hit.vs)

C10_Witness ==
    /\ last.op = "get_value" /\ qs /\ Quoted(hit.vs) /\ last.path = "quote"
    /\ ret = 2
    /\ \E j \in 0..1 : value[j] \in {SQ, DQ}
    /\ Len(LineRest(hit.vs)) > Len(QuotedBody(hit.vs)) + 3

\* the bytes after the first non-skipped byte of the value region, up to the end of the line
Inner(vs) == LineRest(SkipBlanks(vs) + 1)

\* the value at vs opens with a quote that does not occur again on the line
Unterminated(vs) ==
    /\ ByteAt(SkipBlanks(vs)) \in {SQ, DQ}
    /\ \A i \in DOMAIN Inner(vs) : Inner(vs)[i] # ByteAt(SkipBlanks(vs))

CloseIndex(s, q) ==
    LET Closing(i) == s[i] = q /\ (i = 1 \/ s[i - 1] # BSL)
    IN IF \E i \in DOMAIN s : Closing(i)
       THEN CHOOSE i \in DOMAIN s : Closing(i) /\ \A j \in 1..(i - 1) : ~Closing(j)
       ELSE 0

\* s with every backslash that is immediately followed by the quote q dropped
RECURSIVE Unescaped(_, _)
Unescaped(s, q) ==
    IF s = <<>> THEN <<>>
    ELSE IF Head(s) = BSL /\ Len(s) >= 2 /\ s[2] = q
         THEN <<q>> \o Unescaped(Tail(Tail(s)), q)
         ELSE <<Head(s)>> \o Unescaped(Tail(s), q)

\* the value at vs opens with a quote
OpensWithQuote(vs) == ByteAt(SkipBlanks(vs)) \in {SQ, DQ}

\* the quote that ends the value at vs comes right after an escaped quote
QuoteAfterEscapedQuote(vs) ==
    LET q == ByteAt(SkipBlanks(vs))
        e == CloseIndex(Inner(vs), q)
    IN e > 1 /\ Inner(vs)[e - 1] = q

\* C12: with quoted strings enabled, inside a quoted value every backslash
\* immediately followed by the opening quote character is dropped and that
\* quote is a literal byte of the value that does not close it; a backslash
\* followed by any other byte is copied unchanged; the write that replaces
\* the backslash, as every write of get_value, is at an index >= 0.
C12_EscapedQuote ==
    /\ last.op = "get_value" => \A j \in last.wr : j >= 0
    /\ (last.op = "get_value" /\ qs /\ OpensWithQuote(hit.vs) /\ ~QuoteAfterEscapedQuote(hit.vs)) =>
          LET q == ByteAt(SkipBlanks(hit.vs))
              e == CloseIndex(Inner(hit.vs), q)
              out == IF e > 0 THEN Unescaped(SubSeq(Inner(hit.vs), 1, e - 1), q)
                     ELSE IF ws THEN StripRight(Unescaped(Inner(hit.vs), q))
                     ELSE Unescaped(Inner(hit.vs), q)
          IN /\ last.arg >= Len(Inner(hit.vs)) + 2 => last.path # "overflow"
             /\ last.path # "overflow" =>
                   /\ last.path = (IF e > 0 THEN "quote" ELSE "eol")
                   /\ ret = Len(out)
                   /\ StrOf(value) = out

C12_Witness ==
    /\ last.op = "get_value" /\ qs /\ OpensWithQuote(hit.vs) /\ ~QuoteAfterEscapedQuote(hit.vs)
    /\ last.path = "quote" /\ ret = 2
    /\ value[0] = ByteAt(SkipBlanks(hit.vs))
    /\ Inner(hit.vs)[1] = BSL

C12_WitnessOtherByte ==
    /\ last.op = "get_value" /\ qs /\ OpensWithQuote(hit.vs)
    /\ last.path = "eol" /\ ret = 2
    /\ value[0] = BSL /\ value[1] = LA

\* C13: with quoted strings enabled, quote handling starts only at a quote
\* that is the first non-skipped byte of the value: a value whose first
\* non-skipped byte is not a quote is copied verbatim up to the end of the
\* line, the quote characters that occur later in it included.
C13_QuoteOnlyAtStart ==
    (/\ last.op = "get_value" /\ qs
     /\ ~OpensWithQuote(hit.vs)
     /\ last.path # "overflow")
    => (ret = Len(PlainValue(hit.vs)) /\ StrOf(value) = PlainValue(hit.vs))

\* the number of blanks from offset p on
RECURSIVE BlankRun(_)
BlankRun(p) == IF Blank(ByteAt(p)) THEN 1 + BlankRun(p + 1) ELSE 0

\* the line at offset p reads blanks, the key k, blanks, a delimiter, with a blank somewhere
PaddedKeyLine(p, k) ==
    LET a == BlankRun(p)
        b == BlankRun(p + a + Len(k))
    IN a + b > 0 /\ KeyParse(p, k, a, b)

\* C14: with whitespace skip disabled blanks are literal: check_key does not
\* match a line with a blank before the key or between the key and the
\* delimiter, and get_value returns the blanks that lead and trail the value
\* unchanged; with whitespace skip enabled the same line matches and the
\* value is returned stripped of them.
C14_WhitespaceLiteral ==
    /\ (last.op = "check_key" /\ PaddedKeyLine(PreCursor, last.arg)) => (last.ret <=> ws)
    /\ (last.op = "get_value" /\ (~qs \/ ~HasQuote(LineRest(hit.vs)))) =>
          /\ last.arg >= Len(LineRest(hit.vs)) + 2 => last.path # "overflow"
          /\ last.path # "overflow" =>
                StrOf(value) = IF ws THEN StripRight(StripLeft(LineRest(hit.vs)))
                               ELSE LineRest(hit.vs)

C14_Witness ==
    /\ last.op = "get_value" /\ ~ws /\ ret = 2
    /\ Blank(value[0]) /\ ~Blank(value[1])

C14_WitnessTrailing ==
    /\ last.op = "get_value" /\ ~ws /\ ret = 2
    /\ ~Blank(value[0]) /\ Blank(value[1])

C14_WitnessKey ==
    /\ last.op = "check_key" /\ ~ws /\ ~last.ret /\ last.arg = key
    /\ PaddedKeyLine(PreCursor, key)
    /\ Blank(ByteAt(PreCursor))

C14_WitnessKeyEnabled ==
    /\ last.op = "check_key" /\ ws /\ last.ret
    /\ PaddedKeyLine(PreCursor, last.arg)

\* C19: with quoted strings enabled, a quoted value ends at the first
\* occurrence of the opening quote character that has no backslash
\* immediately before it in the source, and nothing after that quote is
\* copied: in backslash, quote, quote the second quote closes the value.
C19_ClosingQuote ==
    (/\ last.op = "get_value" /\ qs
     /\ OpensWithQuote(hit.vs)
     /\ CloseIndex(Inner(hit.vs), ByteAt(SkipBlanks(hit.vs))) > 0
     /\ last.path # "overflow")
    => LET q == ByteAt(SkipBlanks(hit.vs))
           e == CloseIndex(Inner(hit.vs), q)
           out == Unescaped(SubSeq(Inner(hit.vs), 1, e - 1), q)
       IN ret = Len(out) /\ StrOf(value) = out

\* the lookup of the engine that is not in use, on the same source
OtherEngineLookup(cap) ==
    IF Stream THEN kv_parse_buffer(key, InitValue, cap) ELSE kv_parse(key, InitValue, cap)

\* C18: the two engines agree: on the same source text, key, capacity and
\* build flags the stream lookup loop and the buffer lookup loop return the
\* same length and leave the same destination string.
C18_EnginesAgree ==
    /\ (pc = "got" /\ ~continued /\ ~last.retry) =>
          LET other == OtherEngineLookup(last.arg)
          IN ret = other.ret /\ StrOf(value) = StrOf(other.value)
    /\ (pc = "done" /\ ~extracted) =>
          \A cap \in 1..DestSize :
              LET other == OtherEngineLookup(cap)
              IN other.ret = ret /\ other.value = value

C18_Witness ==
    /\ pc = "got" /\ ~continued /\ ~last.retry /\ Stream
    /\ ws /\ qs /\ ret = 2 /\ hit.at > 0
    /\ ByteAt(hit.vs + 1) \in {SQ, DQ}

\* the text after the '[' at offset p up to the end of the line, without its trailing blanks
SectionText(p) == StripRight(LineRest(p + 1))

\* the line at offset p reads '[' name ']' blanks
WellFormedSection(p) ==
    /\ ByteAt(p) = LB
    /\ SectionText(p) # <<>>
    /\ SectionText(p)[Len(SectionText(p))] = RB

SectionName(p) == SubSeq(SectionText(p), 1, Len(SectionText(p)) - 1)

\* the line at offset p is '[' followed by blanks only
EmptySectionLine(p) == ByteAt(p) = LB /\ SectionText(p) = <<>>

\* C15: on a line '[' name ']' blanks with the name fitting the destination,
\* check_section returns the length of the name and leaves the name in the
\* destination; on a line that starts with '[' and whose last non-blank byte
\* is not ']' it returns 0 with an empty destination; the trailing blanks
\* are trimmed whatever the whitespace skip flag.
C15_SectionHeader ==
    last.op = "check_section" =>
        /\ (WellFormedSection(PreCursor) /\ Len(SectionName(PreCursor)) <= last.arg - 1) =>
              (ret = Len(SectionName(PreCursor)) /\ StrOf(value) = SectionName(PreCursor))
        /\ (ByteAt(PreCursor) = LB /\ ~WellFormedSection(PreCursor)) =>
              (ret = 0 /\ value[0] = NUL)

\* the same for a line that holds more than blanks after '[' and a capacity
\* of at least the length of the rest of the line plus 2
C15_SectionHeaderAmpleCapacity ==
    (/\ last.op = "check_section"
     /\ ByteAt(PreCursor) = LB /\ ~EmptySectionLine(PreCursor)
     /\ Len(LineRest(PreCursor + 1)) + 2 <= last.arg)
    => IF WellFormedSection(PreCursor)
       THEN ret = Len(SectionName(PreCursor)) /\ StrOf(value) = SectionName(PreCursor)
       ELSE ret = 0 /\ value[0] = NUL

C15_AmpleWitness ==
    /\ last.op = "check_section" /\ ~ws /\ ret = 1
    /\ Len(LineRest(PreCursor + 1)) = 2 /\ PreCursor > 0

\* C16: check_section gives up for capacity only when the name does not fit:
\* a well-formed header whose name has length at most C-1 succeeds, one whose
\* name has length C or more gives 0, an empty destination and the cursor
\* where it was.
C16_SectionCapacity ==
    (last.op = "check_section" /\ WellFormedSection(PreCursor)) =>
        /\ Len(SectionName(PreCursor)) <= last.arg - 1 =>
              (ret = Len(SectionName(PreCursor)) /\ StrOf(value) = SectionName(PreCursor))
        /\ Len(SectionName(PreCursor)) >= last.arg =>
              (ret = 0 /\ value[0] = NUL /\ Cursor = PreCursor)

\* C17: every check_section call that fails (no '[' at the line start, no
\* closing ']', name too large) returns 0, leaves the first byte of the
\* destination zero whatever it held, and leaves the cursor at the line
\* start where it was.  (The line '[' blanks is the case of C20.)
C17_SectionFailure ==
    (/\ last.op = "check_section"
     /\ ~EmptySectionLine(PreCursor)
     /\ \/ ByteAt(PreCursor) # LB
        \/ ~WellFormedSection(PreCursor)
        \/ Len(SectionName(PreCursor)) >= last.arg)
    => (ret = 0 /\ value[0] = NUL /\ Cursor = PreCursor)

\* C20: check_section reads and writes the destination at indices
\* 0..capacity-1 only, for every line and capacity >= 2, the line '[' end of
\* line and the line '[' blanks included; on such a line it returns 0 with
\* an empty destination.
C20_SectionBounds ==
    (last.op = "check_section" /\ last.arg >= 2) =>
        /\ last.rd \cup last.wr \subseteq 0..(last.arg - 1)
        /\ EmptySectionLine(PreCursor) => (ret = 0 /\ value[0] = NUL)

\* the stream engine on sources that may hold 0xFF, in a build where plain
\* char is signed and in one where it is unsigned
InitChar ==
    /\ src \in CharSources
    /\ key = <<LX>>
    /\ ws = TRUE
    /\ qs = TRUE
    /\ plainCharSigned \in BOOLEAN
    /\ engine = "stream"
    /\ file = Fseek(0)
    /\ input = 0
    /\ input_value = NULL
    /\ value = InitValue
    /\ line = 0
    /\ pc = "next_line"
    /\ ret = 0
    /\ hit = NoHit
    /\ extracted = FALSE
    /\ continued = FALSE
    /\ last = NoCall

SpecChar == InitChar /\ [][Next]_vars

\* the bytes of a C string of plain char, as unsigned char
AsBytes(s) == [i \in DOMAIN s |-> s[i] % 256]

\* C22: the stream engine tells the end of the source apart from every data
\* byte, whether plain char is signed or unsigned: next_line returns on every
\* finite source, and (index not 0) succeeds exactly when a '\n' lies at or
\* after the cursor and a byte follows it; a lookup that ends without a match
\* has passed no line that holds the key, also after a byte 0xFF; and
\* get_value with ample capacity returns the rest of the line up to '\r',
\* '\n' or the end of the source, a byte 0xFF in it included.
C22_EndOfSource ==
    Stream =>
        /\ pc # "hung"
        /\ (last.op = "next_line" /\ ~last.cont /\ last.arg > 0) =>
              LET j == FirstLF(View(last.pre))
              IN last.ret <=> (j > 0 /\ j < Len(View(last.pre)))
        /\ (pc = "done" /\ ~extracted) =>
              \A q \in LineStarts : ~\E a \in Pads, b \in Pads : KeyParse(q, key, a, b)
        /\ (/\ last.op = "get_value"
            /\ ~HasQuote(LineRest(hit.vs))
            /\ last.arg >= Len(LineRest(hit.vs)) + 2)
           => /\ last.path # "overflow"
              /\ ret = Len(PlainValue(hit.vs))
              /\ AsBytes(StrOf(value)) = PlainValue(hit.vs)

\* the lookup of the engine in use, as one call on a fresh destination
OwnEngineLookup(cap) ==
    IF Stream THEN kv_parse(key, InitValue, cap) ELSE kv_parse_buffer(key, InitValue, cap)

\* C21: when the value of the first line on which check_key matches does not
\* fit the destination, the lookup loop returns 0 with an empty destination
\* and stops there: it does not go on to a later line with the same key, not
\* even to one whose value would fit.
C21_StopsAtFirstMatch ==
    (pc = "got" /\ ~continued /\ ~last.retry /\ last.path = "overflow") =>
        /\ ret = 0 /\ value[0] = NUL
        /\ hit.key = key
        /\ MatchesAt(hit.at, key)
        /\ \A q \in LineStarts : q < hit.at => ~MatchesAt(q, key)
        /\ LET r == OwnEngineLookup(last.arg)
           IN r.ret = 0 /\ r.value[0] = NUL

C21_Witness ==
    /\ pc = "got" /\ ~continued /\ ~last.retry /\ last.path = "overflow"
    /\ \E q \in LineStarts :
          /\ q > hit.at
          /\ MatchesAt(q, key)
          /\ Extract(ValueStartAt(q, key), last.arg).ret > 0
====
